---- MODULE Spec2Model ----
(***************************************************************************)
(* Model of of/ofreg.py: the prompt and metadata readers, the session      *)
(* discovery of get_data_from_dir and the per-session pipeline of compute. *)
(*                                                                         *)
(* Text is modelled as a sequence of symbols (one-character strings, and   *)
(* whole words where the code never looks inside them).  A Python dict is  *)
(* a function whose DOMAIN is the set of keys present: a key the code      *)
(* never assigned is absent, and reading it raises KeyError.               *)
(***************************************************************************)
EXTENDS Integers, Sequences, FiniteSets, TLC

VARIABLES
    dirFiles,      \* the directory: the set of file names present in it
    promptLines,   \* contents of each prompt file: base -> its first three lines
    dpc,           \* get_data_from_dir: "idle", "returned" or "raised"
    descs,         \* get_data_from_dir's return value (sequence of descriptors)
    metaLines,     \* _parse_ult_meta: the lines of the metadata file given to it
    mpc,           \* _parse_ult_meta: "idle", "returned" or "raised"
    mret,          \* _parse_ult_meta's return value (a dict), NoValue before/without
    pc,            \* compute: the statement it is at
    item,          \* compute's argument
    wavLen,        \* number of samples read_wav returned (len(ult_wav_frames))
    ultMeta,       \* the tuple read_ult_meta returned
    ultOpen,       \* whether the raw ultrasound file handle is open
    ult_data,      \* the bytes read from the raw ultrasound file
    ult_no_frames, \* compute's local of that name
    ultra,         \* the frame volume, NoValue before reshape
    ultra_interp,  \* the resampled frames
    fIdx,          \* the registration loop's index
    calls,         \* the solver invocations so far, in order
    ofdisp,        \* the mappings appended so far
    data,          \* the local bundle built at the end of compute
    ret,           \* what compute handed to its caller
    err            \* the exception that ended compute, "none" otherwise

discVars == <<dirFiles, promptLines, dpc, descs>>
metaVars == <<metaLines, mpc, mret>>
compVars == <<pc, item, wavLen, ultMeta, ultOpen, ult_data, ult_no_frames, ultra,
              ultra_interp, fIdx, calls, ofdisp, data, ret, err>>
vars == <<discVars, metaVars, compVars>>

NoValue == [none |-> TRUE]

\* ------------------------------------------------------------------ bounds
MaxFiles == 2
MaxLines == 2
MaxBytes == 16
MaxWav == 2

\* ------------------------------------------------------------------ helpers
Range(s) == {s[i] : i \in 1..Len(s)}

\* ------------------------------------------------------------------ numbers
Digits == {"0", "1", "2", "3", "4", "5", "6", "7", "8", "9"}

DigitVal(c) == CASE c = "0" -> 0 [] c = "1" -> 1 [] c = "2" -> 2 [] c = "3" -> 3
                 [] c = "4" -> 4 [] c = "5" -> 5 [] c = "6" -> 6 [] c = "7" -> 7
                 [] c = "8" -> 8 [] c = "9" -> 9

Whitespace == {" ", "\n"}

RECURSIVE LStrip(_)
LStrip(s) == IF s # <<>> /\ Head(s) \in Whitespace THEN LStrip(Tail(s)) ELSE s

RECURSIVE RStrip(_)
RStrip(s) == IF s # <<>> /\ s[Len(s)] \in Whitespace
             THEN RStrip(SubSeq(s, 1, Len(s) - 1)) ELSE s

\* str.strip(): what int() and float() do to their argument first
Strip(s) == RStrip(LStrip(s))

AllDigits(s) == s # <<>> /\ \A i \in 1..Len(s) : s[i] \in Digits

RECURSIVE DigitsVal(_)
DigitsVal(s) == IF s = <<>> THEN 0
                ELSE 10 * DigitsVal(SubSeq(s, 1, Len(s) - 1)) + DigitVal(s[Len(s)])

HasSign(s) == s # <<>> /\ Head(s) \in {"-", "+"}
Unsigned(s) == IF HasSign(s) THEN Tail(s) ELSE s
SignOf(s) == IF s # <<>> /\ Head(s) = "-" THEN -1 ELSE 1

\* int(value_str) succeeds
IsIntLiteral(s) == AllDigits(Unsigned(Strip(s)))

IntValue(s) == SignOf(Strip(s)) * DigitsVal(Unsigned(Strip(s)))

\* position of the first occurrence of c in s, 0 when there is none
RECURSIVE IndexOf(_, _, _)
IndexOf(s, c, i) == IF i > Len(s) THEN 0
                    ELSE IF s[i] = c THEN i ELSE IndexOf(s, c, i + 1)

Before(s, c) == IF IndexOf(s, c, 1) = 0 THEN s ELSE SubSeq(s, 1, IndexOf(s, c, 1) - 1)
After(s, c) == IF IndexOf(s, c, 1) = 0 THEN <<>> ELSE SubSeq(s, IndexOf(s, c, 1) + 1, Len(s))

\* the mantissa of a float literal: digits, with at most one point and a digit somewhere
IsMantissa(s) ==
    IF IndexOf(s, ".", 1) = 0 THEN AllDigits(s)
    ELSE /\ Before(s, ".") = <<>> \/ AllDigits(Before(s, "."))
         /\ After(s, ".") = <<>> \/ AllDigits(After(s, "."))
         /\ Before(s, ".") # <<>> \/ After(s, ".") # <<>>

IsExponent(s) == AllDigits(Unsigned(s))

\* float(value_str) succeeds
IsFloatLiteral(s) ==
    LET u == Unsigned(Strip(s))
    IN  IF IndexOf(u, "e", 1) = 0 THEN IsMantissa(u)
        ELSE IsMantissa(Before(u, "e")) /\ IsExponent(After(u, "e"))

\* a float is num * 10^(-scale), kept in lowest terms so that equal floats are equal
RECURSIVE Normal(_, _)
Normal(num, scale) == IF num = 0 THEN [type |-> "float", num |-> 0, scale |-> 0]
                      ELSE IF num % 10 = 0 THEN Normal(num \div 10, scale - 1)
                      ELSE [type |-> "float", num |-> num, scale |-> scale]

FloatValue(s) ==
    LET t == Strip(s)
        u == Unsigned(t)
        m == Before(u, "e")
        ex == After(u, "e")
        ip == Before(m, ".")
        fp == After(m, ".")
        e == IF ex = <<>> THEN 0 ELSE SignOf(ex) * DigitsVal(Unsigned(ex))
    IN  Normal(SignOf(t) * DigitsVal(ip \o fp), Len(fp) - e)

PyInt(n) == [type |-> "int", val |-> n]

\* ------------------------------------------------------------------ _parse_ult_meta
\* line.split("="): the pieces between the "=" signs
RECURSIVE Split(_, _)
Split(s, c) == IF IndexOf(s, c, 1) = 0 THEN <<s>>
               ELSE <<Before(s, c)>> \o Split(After(s, c), c)

\* (key, value_str) = line.split("=") raises ValueError unless there are two pieces
Unpacks(line) == Len(Split(line, "=")) = 2

LineKey(line) == Split(line, "=")[1]
LineValueStr(line) == Split(line, "=")[2]

\* try: int(value_str)  except ValueError: float(value_str)
\* (ParseValueFloatOnly: the float fallback taken for every value)
ParseValueFloatOnly(s) == FloatValue(s)
ParseValue(s) == IF IsIntLiteral(s) THEN PyInt(IntValue(s)) ELSE FloatValue(s)

LineParses(line) == /\ Unpacks(line)
                    /\ IsIntLiteral(LineValueStr(line)) \/ IsFloatLiteral(LineValueStr(line))

\* meta[key] = value
SetItem(d, k, v) == [x \in DOMAIN d \cup {k} |-> IF x = k THEN v ELSE d[x]]

EmptyDict == [x \in {} |-> 0]

\* the loop over the lines: the dict when every line parsed, otherwise the
\* exception that the first bad line raised (nothing is returned then)
RECURSIVE ParseLoop(_, _, _)
ParseLoop(lines, i, meta) ==
    IF i > Len(lines) THEN [ok |-> TRUE, meta |-> meta]
    ELSE IF ~LineParses(lines[i]) THEN [ok |-> FALSE, error |-> "ValueError"]
    ELSE ParseLoop(lines, i + 1,
                   SetItem(meta, LineKey(lines[i]), ParseValue(LineValueStr(lines[i]))))

_parse_ult_meta(lines) == ParseLoop(lines, 1, EmptyDict)

\* ------------------------------------------------------------------ read_prompt
IsNumber(s, minLen, maxLen) == AllDigits(s) /\ Len(s) >= minLen /\ Len(s) <= maxLen

IsLeap(y) == (y % 4 = 0 /\ y % 100 # 0) \/ y % 400 = 0

DaysIn(m, y) == IF m = 2 THEN (IF IsLeap(y) THEN 29 ELSE 28)
                ELSE IF m \in {4, 6, 9, 11} THEN 30 ELSE 31

AM == <<"A", "M">>
PM == <<"P", "M">>

\* datetime.strptime(text, '%d/%m/%Y %I:%M:%S %p') succeeds
DateParses(text) ==
    LET parts == Split(text, " ")
    IN  /\ Len(parts) = 3
        /\ LET dmy == Split(parts[1], "/")
               hms == Split(parts[2], ":")
           IN  /\ Len(dmy) = 3
               /\ Len(hms) = 3
               /\ IsNumber(dmy[1], 1, 2)
               /\ IsNumber(dmy[2], 1, 2)
               /\ IsNumber(dmy[3], 4, 4)
               /\ IsNumber(hms[1], 1, 2)
               /\ IsNumber(hms[2], 1, 2)
               /\ IsNumber(hms[3], 1, 2)
               /\ DigitsVal(dmy[2]) \in 1..12
               /\ DigitsVal(dmy[3]) >= 1
               /\ DigitsVal(dmy[1]) \in 1..DaysIn(DigitsVal(dmy[2]), DigitsVal(dmy[3]))
               /\ DigitsVal(hms[1]) \in 1..12
               /\ DigitsVal(hms[2]) \in 0..59
               /\ DigitsVal(hms[3]) \in 0..59
               /\ parts[3] \in {AM, PM}

\* the datetime it yields: <<year, month, day, hour (24 h), minute, second>>
DateValue(text) ==
    LET parts == Split(text, " ")
        dmy == Split(parts[1], "/")
        hms == Split(parts[2], ":")
        h24 == (DigitsVal(hms[1]) % 12) + (IF parts[3] = PM THEN 12 ELSE 0)
    IN  <<DigitsVal(dmy[3]), DigitsVal(dmy[2]), DigitsVal(dmy[1]),
          h24, DigitsVal(hms[2]), DigitsVal(hms[3])>>

\* datetime's order: a <= b
RECURSIVE SeqLE(_, _)
SeqLE(a, b) == IF a = <<>> THEN TRUE
               ELSE IF Head(a) # Head(b) THEN Head(a) < Head(b)
               ELSE SeqLE(Tail(a), Tail(b))

DateLE(a, b) == SeqLE(a, b)

\* read_prompt: (prompt, date, participant), or the exception it raises
read_prompt(lines) ==
    IF Len(lines) < 2 THEN [ok |-> FALSE, error |-> "IndexError"]
    ELSE IF ~DateParses(lines[2]) THEN [ok |-> FALSE, error |-> "ValueError"]
    ELSE IF Len(lines) < 3 THEN [ok |-> FALSE, error |-> "IndexError"]
    ELSE [ok |-> TRUE, prompt |-> lines[1], date |-> DateValue(lines[2]),
          participant |-> Split(lines[3], ",")[1]]

\* ------------------------------------------------------------------ get_data_from_dir
BaseNames == <<"a", "b", "c", "d">>
Bases == {BaseNames[i] : i \in 1..MaxFiles}
BaseIndex(b) == CHOOSE i \in 1..Len(BaseNames) : BaseNames[i] = b

TXT == ".txt"
USTXT == "US.txt"
WAV == ".wav"
ULT == ".ult"
Exts == {TXT, USTXT, WAV, ULT}

\* a file name: what precedes the recognised ending, and the ending
File(b, e) == [base |-> b, ext |-> e]

\* glob.glob(directory + '/*US.txt')
GlobUS(dir) == {f \in dir : f.ext = USTXT}
\* glob.glob(directory + '/*.txt'): the US.txt files end in .txt too
GlobTxt(dir) == {f \in dir : f.ext \in {TXT, USTXT}}

\* sorted(): the names in ascending order
RECURSIVE Sorted(_)
Sorted(S) == IF S = {} THEN <<>>
             ELSE LET f == CHOOSE x \in S : \A y \in S : BaseIndex(x.base) <= BaseIndex(y.base)
                  IN  <<f>> \o Sorted(S \ {f})

\* the prompt files: *.txt without the ones also listed as *US.txt
\* (PromptFilesNoFilter: the listing with the overlap left in)
PromptFilesNoFilter(dir) == Sorted(GlobTxt(dir))
PromptFiles(dir) == Sorted({f \in GlobTxt(dir) : f \notin Range(Sorted(GlobUS(dir)))})

\* os.path.isfile
IsFile(dir, f) == f \in dir

\* one "if os.path.isfile(...) ... else ..." block of the loop body
\* (CheckFileNoExclude: the block with the exclusion mark forgotten)
CheckFileNoExclude(dir, d, f, pathKey, existsKey) ==
    IF IsFile(dir, f) THEN SetItem(SetItem(d, pathKey, f), existsKey, TRUE)
    ELSE SetItem(d, existsKey, FALSE)
CheckFile(dir, d, f, pathKey, existsKey) ==
    IF IsFile(dir, f) THEN SetItem(SetItem(d, pathKey, f), existsKey, TRUE)
    ELSE SetItem(SetItem(d, existsKey, FALSE), "excluded", TRUE)

\* the loop body for one prompt file whose read_prompt returned p
Descriptor(dir, pf, p) ==
    LET fb == pf.base
        d0 == SetItem(EmptyDict, "filebase", fb)
        d1 == SetItem(d0, "ult_prompt_file", pf)
        d2 == SetItem(d1, "prompt", p.prompt)
        d3 == SetItem(d2, "date", p.date)
        d4 == SetItem(d3, "participant", p.participant)
        d5 == CheckFile(dir, d4, File(fb, USTXT), "ult_meta_file", "ult_meta_exists")
        d6 == CheckFile(dir, d5, File(fb, WAV), "ult_wav_file", "ult_wav_exists")
    IN  CheckFile(dir, d6, File(fb, ULT), "ult_file", "ult_exists")

\* sorted(meta, key=lambda item: item['date']): Python's sort is stable
RECURSIVE InsertByDate(_, _)
InsertByDate(s, d) ==
    IF s = <<>> THEN <<d>>
    ELSE IF DateLE(Head(s)["date"], d["date"]) THEN <<Head(s)>> \o InsertByDate(Tail(s), d)
    ELSE <<d>> \o s

RECURSIVE SortedByDateFrom(_, _)
SortedByDateFrom(s, acc) == IF s = <<>> THEN acc
                            ELSE SortedByDateFrom(Tail(s), InsertByDate(acc, Head(s)))

\* (SortedByDateNone: the list left in file-name order)
SortedByDateNone(s) == s
SortedByDate(s) == SortedByDateFrom(s, <<>>)

\* the loop over the prompt files; the first read_prompt that raises ends it
RECURSIVE DiscoverLoop(_, _, _, _, _)
DiscoverLoop(dir, contents, pfs, i, meta) ==
    IF i > Len(pfs) THEN [ok |-> TRUE, meta |-> SortedByDate(meta)]
    ELSE LET p == read_prompt(contents[pfs[i].base])
         IN  IF ~p.ok THEN [ok |-> FALSE, error |-> p.error]
             ELSE DiscoverLoop(dir, contents, pfs, i + 1,
                               Append(meta, Descriptor(dir, pfs[i], p)))

get_data_from_dir(dir, contents) == DiscoverLoop(dir, contents, PromptFiles(dir), 1, <<>>)

\* ------------------------------------------------------------------ read_ult_meta
Key(word) == <<word>>

RequiredKeys == {Key("NumVectors"), Key("PixPerVector"), Key("PixelsPerMm"),
                 Key("FramesPerSec"), Key("TimeInSecsOfFirstFrame")}

\* the five values picked out of the dict, or the exception raised on the way
read_ult_meta(lines) ==
    LET r == _parse_ult_meta(lines)
    IN  IF ~r.ok THEN r
        ELSE IF ~(RequiredKeys \subseteq DOMAIN r.meta) THEN [ok |-> FALSE, error |-> "KeyError"]
        ELSE [ok |-> TRUE,
              NumVectors |-> r.meta[Key("NumVectors")],
              PixPerVector |-> r.meta[Key("PixPerVector")],
              PixelsPerMm |-> r.meta[Key("PixelsPerMm")],
              FramesPerSec |-> r.meta[Key("FramesPerSec")],
              TimeInSecsOfFirstFrame |-> r.meta[Key("TimeInSecsOfFirstFrame")]]

\* ------------------------------------------------------------------ compute: decoding
RECURSIVE Pow10(_)
Pow10(n) == IF n <= 0 THEN 1 ELSE 10 * Pow10(n - 1)

\* ultra.astype("float32"): every byte value is a float32 exactly
AsFloat32(b) == Normal(b, 0)

\* np.fromstring(ult_data, dtype=np.uint8).astype("float32")
FromString(bytes) == [i \in 1..Len(bytes) |-> AsFloat32(bytes[i])]

\* int(len(ultra) / (ult_NumVectors * ult_PixPerVector))
FrameCount(total, nv, ppv) == total \div (nv * ppv)

\* ndarray.reshape raises ValueError unless the shape holds exactly the samples
\* (CanReshapeAnySize: a reshape that would drop trailing samples silently)
CanReshapeAnySize(total, n, nv, ppv) == TRUE
CanReshape(total, n, nv, ppv) == n * nv * ppv = total

\* ndarray.reshape((n, nv, ppv)) in C order; indices from 0 as in the code
\* (ReshapeColumnMajor: the same in Fortran order)
ReshapeColumnMajor(samples, n, nv, ppv) ==
    [shape |-> <<n, nv, ppv>>,
     at |-> [idx \in (0..(n - 1)) \X (0..(nv - 1)) \X (0..(ppv - 1)) |->
                samples[idx[1] + n * (idx[2] + nv * idx[3]) + 1]]]
Reshape(samples, n, nv, ppv) ==
    [shape |-> <<n, nv, ppv>>,
     at |-> [idx \in (0..(n - 1)) \X (0..(nv - 1)) \X (0..(ppv - 1)) |->
                samples[(idx[1] * nv + idx[2]) * ppv + idx[3] + 1]]]

\* ------------------------------------------------------------------ compute: resampling
\* f(xnew, ynew) for frame k: the interpolated image, kept as the frame it came from
Resampled(k) == [frame |-> k]

\* the loop "for fIdx in range(0, ult_no_frames)": one image per decoded frame
ResampleAll(n) == [k \in 1..n |-> Resampled(k - 1)]

\* ------------------------------------------------------------------ compute: registration
\* sdr.optimize(next_im, current_im): the argument pair in call order
\* (SolverArgsSwapped: the pair passed as (current, next))
SolverArgsSwapped(current_im, next_im) == <<current_im, next_im>>
SolverArgs(current_im, next_im) == <<next_im, current_im>>

\* the mapping the solver returns for (static, moving)
Mapping(args) == [static |-> args[1], moving |-> args[2]]

\* ------------------------------------------------------------------ compute: time vectors
\* times are kept in units of 1/10000 s; the inputs make every division exact
Ticks(v) == IF v.type = "int" THEN v.val * 10000
            ELSE IF v.scale >= 0 THEN (v.num * 10000) \div Pow10(v.scale)
            ELSE v.num * 10000 * Pow10(-v.scale)

\* 1 / rate, rate in Hz
PeriodOf(rate) == (10000 * 10000) \div Ticks(rate)

\* np.linspace(0, n, n, endpoint=False) / rate + offset
TimeVector(n, rate, offset) == [k \in 1..n |-> (k - 1) * PeriodOf(rate) + offset]

\* ultra_time: offset by the first frame's time plus half a frame period
UltraTime(n, fps, t0) == TimeVector(n, fps, Ticks(t0) + PeriodOf(fps) \div 2)

\* ult_wav_time
WavTime(n, fs) == TimeVector(n, fs, 0)

\* ------------------------------------------------------------------ inputs
\* prompt files: line 1 the prompt, line 2 the time stamp, line 3 the participant line
D1 == <<"0","2","/","0","1","/","2","0","2","0"," ","1","2",":","0","0",":","0","0"," ","A","M">>
D2 == <<"0","2","/","0","1","/","2","0","2","0"," ","0","1",":","0","0",":","0","0"," ","A","M">>
D3 == <<"0","1","/","0","2","/","2","0","2","0"," ","0","1",":","3","0",":","0","0"," ","P","M">>
DBadHour == <<"0","2","/","0","1","/","2","0","2","0"," ","1","3",":","0","0",":","0","0"," ","P","M">>
DateTexts == {D1, D2, D3, DBadHour}

PromptLine(b) == <<"s", "a", "y", " ", b>>
ParticipantLine(b) == <<"P", b, ",", "F", ",", "3", "0">>

PromptContents(b) == {<<PromptLine(b), dt, ParticipantLine(b)>> : dt \in DateTexts}
                         \cup {<<PromptLine(b), D1>>}

NoFile == <<>>

\* what a directory may hold for base b: any subset of its four files, the prompt
\* file (when there) with some contents
FilesOf(b) == SUBSET {File(b, e) : e \in Exts}
ContentsFor(b, files) == IF File(b, TXT) \in files THEN PromptContents(b) ELSE {NoFile}

\* the directories over the base names in B: <<files, prompt file contents>>
RECURSIVE Directories(_)
Directories(B) ==
    IF B = {} THEN {<<{}, [b \in Bases |-> NoFile]>>}
    ELSE LET b == CHOOSE x \in B : TRUE
         IN  UNION {{<<d[1] \cup files, [d[2] EXCEPT ![b] = lines]>> :
                        lines \in ContentsFor(b, files), d \in Directories(B \ {b})} :
                    files \in FilesOf(b)}

\* metadata files
MetaKeys == {<<"k">>, <<"F", "P", "S">>}
IntTexts == {<<"3">>, <<"-", "7">>, <<" ", "1", "2">>}
FloatTexts == {<<"2", ".", "5">>, <<"3", ".", "0">>, <<"1", "e", "2">>, <<".", "5">>}
BadTexts == {<<"x">>, <<>>, <<"1", ".", "2", ".", "3">>}
GoodLines == {k \o <<"=">> \o v \o <<"\n">> : k \in MetaKeys, v \in IntTexts \cup FloatTexts}
BadValueLines == {k \o <<"=">> \o v \o <<"\n">> : k \in MetaKeys, v \in BadTexts}
BadShapeLines == {<<"\n">>, <<"k", "\n">>, <<"k", "=", "1", "=", "2", "\n">>}
MetaLineSet == GoodLines \cup BadValueLines \cup BadShapeLines \cup {<<"k", "=", "3">>}

\* a file of up to n lines; only its last line can lack the line end
EndsLine(line) == line # <<>> /\ line[Len(line)] = "\n"
MetaFilesUpTo(n) ==
    {f \in UNION {[1..m -> MetaLineSet] : m \in 0..n} :
        \A i \in 1..(Len(f) - 1) : EndsLine(f[i])}

\* the metadata files compute is given: key=value lines, the key one word
KV(word, text) == <<word, "=">> \o text \o <<"\n">>
NumText(n) == <<CHOOSE c \in Digits : DigitVal(c) = n>>
UltMetaFile(nv, ppv) ==
    <<KV("NumVectors", NumText(nv)), KV("PixPerVector", NumText(ppv)),
      KV("PixelsPerMm", <<"2", ".", "5">>), KV("FramesPerSec", <<"1", "0", "0">>),
      KV("TimeInSecsOfFirstFrame", <<"0", ".", "1">>)>>
Geometries == {2, 3}
UltMetaFiles ==
    {UltMetaFile(nv, ppv) : nv \in Geometries, ppv \in Geometries}
       \cup {SubSeq(UltMetaFile(2, 2), 1, 4)}
       \cup {<<KV("NumVectors", <<"x">>)>>}

\* the raw files: n bytes, all different, wrapping past 255
Buffer(n, seed) == [i \in 1..n |-> (seed + 7 * i) % 256]
Seeds == {0, 200}

\* the wav files: n samples at 1000 Hz
WavRate == PyInt(1000)

\* ------------------------------------------------------------------ states
DiscIdle == dpc = "idle" /\ descs = NoValue
MetaIdle == mpc = "idle" /\ mret = NoValue /\ metaLines = <<>>
CompIdle ==
    /\ pc = "idle" /\ item = NoValue /\ wavLen = 0 /\ ultMeta = NoValue
    /\ ultOpen = FALSE /\ ult_data = <<>> /\ ult_no_frames = 0 /\ ultra = NoValue
    /\ ultra_interp = <<>> /\ fIdx = 0 /\ calls = <<>> /\ ofdisp = <<>>
    /\ data = NoValue /\ ret = NoValue /\ err = "none"

\* ------------------------------------------------------------------ actions
\* a call of get_data_from_dir(directory)
Discover ==
    /\ dpc = "idle"
    /\ \E r \in {get_data_from_dir(dirFiles, promptLines)} :
          IF r.ok THEN dpc' = "returned" /\ descs' = r.meta
          ELSE dpc' = "raised" /\ descs' = NoValue
    /\ UNCHANGED <<dirFiles, promptLines, metaVars, compVars>>

\* a call of _parse_ult_meta(filebase)
ParseMeta ==
    /\ mpc = "idle"
    /\ \E r \in {_parse_ult_meta(metaLines)} :
          IF r.ok THEN mpc' = "returned" /\ mret' = r.meta
          ELSE mpc' = "raised" /\ mret' = NoValue
    /\ UNCHANGED <<metaLines, discVars, compVars>>

\* the recording software puts the files of one more session into the directory
RecordSession ==
    /\ dpc = "idle"
    /\ \E b \in Bases :
          /\ \A f \in dirFiles : f.base # b
          /\ \E files \in FilesOf(b) \ {{}} :
                \E lines \in ContentsFor(b, files) :
                   /\ dirFiles' = dirFiles \cup files
                   /\ promptLines' = [promptLines EXCEPT ![b] = lines]
    /\ UNCHANGED <<dpc, descs, metaVars, compVars>>

InitDisc ==
    /\ dirFiles = {} /\ promptLines = [b \in Bases |-> NoFile]
    /\ DiscIdle /\ MetaIdle /\ CompIdle
NextDisc ==
    \/ RecordSession
    \/ Discover
SpecDisc == InitDisc /\ [][NextDisc]_vars

InitMeta ==
    /\ dirFiles = {} /\ promptLines = [b \in Bases |-> NoFile]
    /\ DiscIdle /\ CompIdle
    /\ mpc = "idle" /\ mret = NoValue /\ metaLines \in MetaFilesUpTo(MaxLines)
NextMeta == ParseMeta
SpecMeta == InitMeta /\ [][NextMeta]_vars

\* ------------------------------------------------------------------ compute
PyNone == [value |-> "None"]

\* an exception leaves compute; inside the with block closing() closes the file
Raise(e) == pc' = "raised" /\ err' = e /\ ultOpen' = FALSE

\* the driver calls compute(item) on a descriptor of the discovered list
ComputeCall ==
    /\ pc = "idle" /\ dpc = "returned"
    /\ \E i \in 1..Len(descs) : item' = descs[i]
    /\ pc' = "read_wav"
    /\ UNCHANGED <<wavLen, ultMeta, ultOpen, ult_data, ult_no_frames, ultra,
                   ultra_interp, fIdx, calls, ofdisp, data, ret, err>>
    /\ UNCHANGED <<discVars, metaVars>>

\* read_wav(item['ult_wav_file'])
ReadWav ==
    /\ pc = "read_wav"
    /\ IF "ult_wav_file" \notin DOMAIN item
       THEN Raise("KeyError") /\ UNCHANGED wavLen
       ELSE /\ \E n \in 0..MaxWav : wavLen' = n
            /\ pc' = "read_meta"
            /\ UNCHANGED <<err, ultOpen>>
    /\ UNCHANGED <<item, ultMeta, ult_data, ult_no_frames, ultra,
                   ultra_interp, fIdx, calls, ofdisp, data, ret>>
    /\ UNCHANGED <<discVars, metaVars>>

\* read_ult_meta(item['ult_meta_file'])
ReadUltMeta ==
    /\ pc = "read_meta"
    /\ IF "ult_meta_file" \notin DOMAIN item
       THEN Raise("KeyError") /\ UNCHANGED ultMeta
       ELSE \E lines \in UltMetaFiles :
               LET r == read_ult_meta(lines)
               IN  IF r.ok THEN /\ ultMeta' = r
                                /\ pc' = "open_ult"
                                /\ UNCHANGED <<err, ultOpen>>
                   ELSE Raise(r.error) /\ UNCHANGED ultMeta
    /\ UNCHANGED <<item, wavLen, ult_data, ult_no_frames, ultra,
                   ultra_interp, fIdx, calls, ofdisp, data, ret>>
    /\ UNCHANGED <<discVars, metaVars>>

\* with closing(open(item['ult_file'], 'rb')) as ult_file:
OpenUlt ==
    /\ pc = "open_ult"
    /\ IF "ult_file" \notin DOMAIN item
       THEN Raise("KeyError")
       ELSE ultOpen' = TRUE /\ pc' = "read_ult" /\ UNCHANGED err
    /\ UNCHANGED <<item, wavLen, ultMeta, ult_data, ult_no_frames, ultra,
                   ultra_interp, fIdx, calls, ofdisp, data, ret>>
    /\ UNCHANGED <<discVars, metaVars>>

\* ult_data = ult_file.read()
ReadUlt ==
    /\ pc = "read_ult"
    /\ \E n \in 0..MaxBytes, seed \in Seeds : ult_data' = Buffer(n, seed)
    /\ pc' = "decode"
    /\ UNCHANGED <<item, wavLen, ultMeta, ultOpen, ult_no_frames, ultra,
                   ultra_interp, fIdx, calls, ofdisp, data, ret, err>>
    /\ UNCHANGED <<discVars, metaVars>>

\* fromstring, astype, the frame count and the reshape
Decode ==
    /\ pc = "decode"
    /\ LET samples == FromString(ult_data)
           nv == ultMeta.NumVectors.val
           ppv == ultMeta.PixPerVector.val
           n == FrameCount(Len(samples), nv, ppv)
       IN  /\ ult_no_frames' = n
           /\ IF CanReshape(Len(samples), n, nv, ppv)
              THEN /\ ultra' = Reshape(samples, n, nv, ppv)
                   /\ pc' = "interp"
                   /\ UNCHANGED <<err, ultOpen>>
              ELSE Raise("ValueError") /\ UNCHANGED ultra
    /\ UNCHANGED <<item, wavLen, ultMeta, ult_data,
                   ultra_interp, fIdx, calls, ofdisp, data, ret>>
    /\ UNCHANGED <<discVars, metaVars>>

\* the target grid, and f = interp2d(x, y, np.transpose(ultra[1, :, :])) before the loop
InterpSetup ==
    /\ pc = "interp"
    /\ IF ult_no_frames < 2
       THEN Raise("IndexError")
       ELSE pc' = "resample" /\ UNCHANGED <<err, ultOpen>>
    /\ UNCHANGED <<item, wavLen, ultMeta, ult_data, ult_no_frames, ultra,
                   ultra_interp, fIdx, calls, ofdisp, data, ret>>
    /\ UNCHANGED <<discVars, metaVars>>

\* for fIdx in range(0, ult_no_frames): ultra_interp.append(f(xnew, ynew))
Resample ==
    /\ pc = "resample"
    /\ ultra_interp' = ResampleAll(ult_no_frames)
    /\ pc' = "setup"
    /\ UNCHANGED <<item, wavLen, ultMeta, ultOpen, ult_data, ult_no_frames, ultra,
                   fIdx, calls, ofdisp, data, ret, err>>
    /\ UNCHANGED <<discVars, metaVars>>

\* the solver's configuration; ofdisp = []; ult_no_frames = 3
RegistrationSetup ==
    /\ pc = "setup"
    /\ ofdisp' = <<>>
    /\ ult_no_frames' = 3
    /\ fIdx' = 0
    /\ pc' = "register"
    /\ UNCHANGED <<item, wavLen, ultMeta, ultOpen, ult_data, ultra,
                   ultra_interp, calls, data, ret, err>>
    /\ UNCHANGED <<discVars, metaVars>>

\* one pass of "for fIdx in range(ult_no_frames - 1)"; list indices are from 0,
\* so ultra_interp[fIdx + 1] is the sequence's element fIdx + 2
RegisterPair ==
    /\ pc = "register"
    /\ fIdx < ult_no_frames - 1
    /\ IF fIdx + 2 > Len(ultra_interp)
       THEN Raise("IndexError") /\ UNCHANGED <<calls, ofdisp, fIdx>>
       ELSE LET args == SolverArgs(ultra_interp[fIdx + 1], ultra_interp[fIdx + 2])
            IN  /\ calls' = Append(calls, args)
                /\ \/ /\ ofdisp' = Append(ofdisp, Mapping(args))
                      /\ fIdx' = fIdx + 1
                      /\ UNCHANGED <<pc, err, ultOpen>>
                   \/ /\ Raise("SolverError")
                      /\ UNCHANGED <<ofdisp, fIdx>>
    /\ UNCHANGED <<item, wavLen, ultMeta, ult_data, ult_no_frames, ultra,
                   ultra_interp, data, ret>>
    /\ UNCHANGED <<discVars, metaVars>>

\* after the loop: plt.quiver(..., ofdisp[1].forward ...), plt.show()
Quiver ==
    /\ pc = "register"
    /\ fIdx >= ult_no_frames - 1
    /\ IF Len(ofdisp) < 2
       THEN Raise("IndexError")
       ELSE pc' = "times" /\ UNCHANGED <<err, ultOpen>>
    /\ UNCHANGED <<item, wavLen, ultMeta, ult_data, ult_no_frames, ultra,
                   ultra_interp, fIdx, calls, ofdisp, data, ret>>
    /\ UNCHANGED <<discVars, metaVars>>

\* the two time vectors and the data dict
Assemble ==
    /\ pc = "times"
    /\ data' = [of |-> ofdisp,
                frames |-> ultra,
                ult_time |-> UltraTime(ult_no_frames, ultMeta.FramesPerSec,
                                       ultMeta.TimeInSecsOfFirstFrame),
                wav_time |-> WavTime(wavLen, WavRate)]
    /\ pc' = "exit"
    /\ UNCHANGED <<item, wavLen, ultMeta, ultOpen, ult_data, ult_no_frames, ultra,
                   ultra_interp, fIdx, calls, ofdisp, ret, err>>
    /\ UNCHANGED <<discVars, metaVars>>

\* the with block ends, print("toast"), and the function ends without a return
Return ==
    /\ pc = "exit"
    /\ ultOpen' = FALSE
    /\ ret' = PyNone
    /\ pc' = "returned"
    /\ UNCHANGED <<item, wavLen, ultMeta, ult_data, ult_no_frames, ultra,
                   ultra_interp, fIdx, calls, ofdisp, data, err>>
    /\ UNCHANGED <<discVars, metaVars>>

Init ==
    /\ \E dp \in Directories({BaseNames[1]}) : dirFiles = dp[1] /\ promptLines = dp[2]
    /\ DiscIdle /\ MetaIdle /\ CompIdle

Next ==
    \/ Discover
    \/ ComputeCall
    \/ ReadWav
    \/ ReadUltMeta
    \/ OpenUlt
    \/ ReadUlt
    \/ Decode
    \/ InterpSetup
    \/ Resample
    \/ RegistrationSetup
    \/ RegisterPair
    \/ Quiver
    \/ Assemble
    \/ Return

Spec == Init /\ [][Next]_vars


\* ------------------------------------------------------------------ claims: discovery
\* the prompt files of the directory: *.txt names that are not *US.txt names
PromptBases == {f.base : f \in {g \in dirFiles : g.ext = TXT}}
Companions(b) == {File(b, USTXT), File(b, WAV), File(b, ULT)}
CompleteBases == {b \in PromptBases : Companions(b) \subseteq dirFiles}
Excluded(d) == "excluded" \in DOMAIN d /\ d["excluded"] = TRUE
PromptWellFormed(b) == /\ Len(promptLines[b]) >= 3
                       /\ DateParses(promptLines[b][2])

\* the existence flags of descriptor d are those of the files of its base
FlagsTrue(d) ==
    /\ {"ult_meta_exists", "ult_wav_exists", "ult_exists"} \subseteq DOMAIN d
    /\ d["ult_meta_exists"] = (File(d["filebase"], USTXT) \in dirFiles)
    /\ d["ult_wav_exists"] = (File(d["filebase"], WAV) \in dirFiles)
    /\ d["ult_exists"] = (File(d["filebase"], ULT) \in dirFiles)

C8_SortedByDate ==
    dpc = "returned" =>
       /\ \A i \in 1..(Len(descs) - 1) : DateLE(descs[i]["date"], descs[i + 1]["date"])
       /\ Len(descs) = Cardinality(PromptBases)
       /\ \A b \in PromptBases : \E i \in 1..Len(descs) :
             /\ descs[i]["filebase"] = b
             /\ descs[i]["ult_prompt_file"] = File(b, TXT)
             /\ descs[i]["prompt"] = promptLines[b][1]
             /\ descs[i]["date"] = DateValue(promptLines[b][2])
             /\ descs[i]["participant"] = <<"P", b>>
             /\ FlagsTrue(descs[i])

\* the sort moved a session: the later file name carries the earlier date
C8_Witness ==
    /\ dpc = "returned"
    /\ Len(descs) = 2
    /\ descs[1]["filebase"] = BaseNames[2]
    /\ descs[2]["filebase"] = BaseNames[1]
    /\ descs[1]["date"] # descs[2]["date"]

\* ------------------------------------------------------------------ claims: metadata
EqualsSigns(line) == Cardinality({i \in 1..Len(line) : line[i] = "="})
TextOfValue(line) == SubSeq(line, IndexOf(line, "=", 1) + 1, Len(line))
TextOfKey(line) == SubSeq(line, 1, IndexOf(line, "=", 1) - 1)
Numeric(text) == IsIntLiteral(text) \/ IsFloatLiteral(text)
BadLine(line) == EqualsSigns(line) # 1 \/ ~Numeric(TextOfValue(line))
Expected(text) == IF IsIntLiteral(text) THEN [type |-> "int", val |-> IntValue(text)]
                  ELSE FloatValue(text)
LastLineWith(k) == CHOOSE i \in 1..Len(metaLines) :
                      /\ TextOfKey(metaLines[i]) = k
                      /\ \A j \in (i + 1)..Len(metaLines) : TextOfKey(metaLines[j]) # k

FailsExactlyOnBadLine ==
    /\ mpc = "raised" <=> \E i \in 1..Len(metaLines) : BadLine(metaLines[i])
    /\ mpc = "raised" => mret = NoValue

\* C9 as stated: the reader returns a dict in which EVERY line's key maps to that
\* line's value (int for an integer literal, float otherwise), or fails, and
\* fails exactly on a line with a non-numeric value or not exactly one "=".
C9_EveryLineKept ==
    /\ mpc = "returned" =>
          \A i \in 1..Len(metaLines) :
             /\ TextOfKey(metaLines[i]) \in DOMAIN mret
             /\ mret[TextOfKey(metaLines[i])] = Expected(TextOfValue(metaLines[i]))
    /\ mpc # "idle" => FailsExactlyOnBadLine

\* C9 amended: the dict's keys are the lines' keys and each key maps to the value
\* of the LAST line carrying it (int for an integer literal, float otherwise);
\* the reader fails exactly when some line has a non-numeric value or not exactly
\* one "=", and then returns nothing.
C9_LastLineWins ==
    /\ mpc = "returned" =>
          /\ DOMAIN mret = {TextOfKey(metaLines[i]) : i \in 1..Len(metaLines)}
          /\ \A k \in DOMAIN mret :
                mret[k] = Expected(TextOfValue(metaLines[LastLineWith(k)]))
    /\ mpc # "idle" => FailsExactlyOnBadLine

\* a file that gives one key an integer and then a non-integer value was read
C9_Witness ==
    /\ mpc = "returned"
    /\ Len(metaLines) = 2
    /\ TextOfKey(metaLines[1]) = TextOfKey(metaLines[2])
    /\ IsIntLiteral(TextOfValue(metaLines[1]))
    /\ ~IsIntLiteral(TextOfValue(metaLines[2]))

\* ------------------------------------------------------------------ claims: compute
MissingCompanion(d) == ~(Companions(d["filebase"]) \subseteq dirFiles)
Called == item # NoValue
MetaRead == ultMeta # NoValue
Decoded == ultra # NoValue
Ended == pc \in {"raised", "returned"}
FrameSize == IF MetaRead THEN ultMeta.NumVectors.val * ultMeta.PixPerVector.val ELSE 1
FramesDecoded == IF Decoded THEN ultra.shape[1] ELSE 0

\* C1: a session with a missing companion file is marked excluded, and compute
\* called on it never reads or decodes the raw file, never calls the solver and
\* never builds or yields displacement fields.
C1_ExcludedNeverComputed ==
    /\ dpc = "returned" =>
          \A i \in 1..Len(descs) : MissingCompanion(descs[i]) => Excluded(descs[i])
    /\ (Called /\ MissingCompanion(item)) =>
          /\ Excluded(item)
          /\ pc \in {"read_wav", "read_meta", "open_ult", "raised"}
          /\ ~ultOpen
          /\ ult_data = <<>>
          /\ ~Decoded
          /\ ultra_interp = <<>> /\ calls = <<>> /\ ofdisp = <<>>
          /\ data = NoValue /\ ret = NoValue

\* compute was called on a session lacking only its raw file and ended at the
\* lookup of the raw file's path
C1_Witness ==
    /\ Called
    /\ Companions(item["filebase"]) \cap dirFiles
           = {File(item["filebase"], USTXT), File(item["filebase"], WAV)}
    /\ MetaRead
    /\ pc = "raised" /\ err = "KeyError"

\* C3: for a complete session compute hands its caller the bundle of displacement
\* fields, frame volume and the two time vectors, with 2 displacement entries for
\* a 3-frame raw file.
C3_BundleDelivered ==
    pc = "returned" =>
       /\ ret = data
       /\ DOMAIN ret = {"of", "frames", "ult_time", "wav_time"}
       /\ FramesDecoded = 3 => Len(ret.of) = 2

\* C4: in a session processed to the end the ultrasound time vector has one entry
\* per frame of the bundle's frame volume, entry k the time of frame k, and the
\* audio time vector one entry per audio sample.
C4_TimeVectorLengths ==
    pc = "returned" =>
       /\ Len(data.ult_time) = data.frames.shape[1]
       /\ \A k \in 1..(Len(data.ult_time) - 1) :
             data.ult_time[k + 1] - data.ult_time[k] = PeriodOf(ultMeta.FramesPerSec)
       /\ Len(data.wav_time) = wavLen

\* C5: when the raw file's byte count is not a multiple of NumVectors *
\* PixPerVector the decoder fails: no frame volume, no resampling, no
\* registration, no bundle.
C5_PartialFrameFails ==
    (MetaRead /\ Len(ult_data) % FrameSize # 0 /\ pc # "decode") =>
       /\ pc = "raised" /\ err = "ValueError"
       /\ ~Decoded
       /\ ~ultOpen
       /\ ultra_interp = <<>> /\ calls = <<>> /\ ofdisp = <<>>
       /\ data = NoValue /\ ret = NoValue

\* the decoder failed on a raw file of more than one frame plus a partial frame
C5_Witness ==
    /\ MetaRead
    /\ Len(ult_data) % FrameSize # 0
    /\ Len(ult_data) > FrameSize
    /\ pc = "raised" /\ err = "ValueError"

\* v is the float with the value of the integer n
FloatIs(v, n) == v.type = "float" /\ v.scale <= 0 /\ v.num * Pow10(-v.scale) = n

\* C6: on a buffer of exactly frames * vectors * pixels_per_vector bytes the
\* decoder does not fail, counts `frames` frames and produces the volume of shape
\* (frames, vectors, pixels_per_vector) whose element (f, v, p) is the byte at
\* offset (f * vectors + v) * pixels_per_vector + p, as a float.
C6_ExactBufferDecodes ==
    /\ Decoded =>
          /\ ultra.shape = <<Len(ult_data) \div FrameSize,
                             ultMeta.NumVectors.val, ultMeta.PixPerVector.val>>
          /\ ultra.shape[1] * FrameSize = Len(ult_data)
          /\ pc \in {"interp", "resample"} => ult_no_frames = ultra.shape[1]
          /\ DOMAIN ultra.at = (0..(ultra.shape[1] - 1)) \X (0..(ultra.shape[2] - 1))
                                   \X (0..(ultra.shape[3] - 1))
          /\ \A idx \in DOMAIN ultra.at :
                FloatIs(ultra.at[idx],
                        ult_data[(idx[1] * ultra.shape[2] + idx[2]) * ultra.shape[3]
                                 + idx[3] + 1])
    /\ (MetaRead /\ pc \notin {"open_ult", "read_ult", "decode"}
           /\ ~(pc = "raised" /\ err = "KeyError")
           /\ Len(ult_data) % FrameSize = 0) => Decoded

\* a two-frame buffer of 2 vectors by 3 pixels has just been decoded
C6_Witness ==
    /\ pc = "interp"
    /\ Decoded
    /\ ultra.shape = <<2, 2, 3>>
    /\ Len(ult_data) = 12

\* the solver calls C7 names: (frame 1, frame 0), then (frame 2, frame 1)
FirstThreePairs == <<<<Resampled(1), Resampled(0)>>, <<Resampled(2), Resampled(1)>>>>
IsPrefix(s, t) == Len(s) <= Len(t) /\ \A i \in 1..Len(s) : s[i] = t[i]
MappingsOfCalls ==
    /\ Len(ofdisp) <= Len(calls)
    /\ Len(calls) <= Len(ofdisp) + 1
    /\ \A k \in 1..Len(ofdisp) :
          ofdisp[k].static = calls[k][1] /\ ofdisp[k].moving = calls[k][2]

\* C7 as stated: whatever the frame count, a session that got as far as the
\* registration loop and whose solver calls all succeed makes exactly the two
\* calls (1, 0) and (2, 1) and leaves exactly 2 displacement entries.
C7_AlwaysTwoPairs ==
    (ultra_interp # <<>> /\ Ended /\ err # "SolverError") =>
       /\ calls = FirstThreePairs
       /\ Len(ofdisp) = 2
       /\ MappingsOfCalls

\* C7 amended: the solver is only ever called for the pairs of the first three
\* resampled frames, (frame 1, frame 0) then (frame 2, frame 1), as (next,
\* current), and each mapping is appended in that order; a session of at least
\* three frames ends registration with exactly 2 entries unless the solver
\* raises, however many frames it has; a session of fewer than three frames ends
\* in IndexError with fewer than 2 entries.
C7_FirstThreeFrames ==
    /\ IsPrefix(calls, FirstThreePairs)
    /\ MappingsOfCalls
    /\ (FramesDecoded >= 3 /\ pc \in {"times", "exit", "returned"}) =>
          calls = FirstThreePairs /\ Len(ofdisp) = 2
    /\ (FramesDecoded >= 3 /\ pc = "raised") => err = "SolverError"
    /\ (Decoded /\ FramesDecoded < 3 /\ Ended) =>
          pc = "raised" /\ err \in {"IndexError", "SolverError"} /\ Len(ofdisp) < 2
    /\ pc \in {"times", "exit", "returned"} => FramesDecoded >= 3

\* a four-frame session left registration with the two mappings of its first
\* three frames
C7_Witness ==
    /\ pc = "times"
    /\ FramesDecoded = 4
    /\ Len(ultra_interp) = 4
    /\ calls = FirstThreePairs
    /\ Len(ofdisp) = 2

\* C10: the raw file's handle is closed before the data read from it is
\* processed (reshaped, resampled, registered, assembled), and it is closed on
\* every exit of compute, failures included.
C10_ClosedBeforeProcessing ==
    /\ pc \in {"decode", "interp", "resample", "setup", "register", "times", "exit"}
          => ~ultOpen
    /\ Ended => ~ultOpen

====
